---- MODULE Spec2Model ----
(***************************************************************************)
(* Model of src/main.py: SnapshotManagement (EBS volume snapshot backup    *)
(* with tiered retention) and its lambda_handler.                          *)
(*                                                                         *)
(* The provider (EC2) is the environment: it holds the snapshots (cloud),  *)
(* answers describe_snapshots / create_snapshot / delete_snapshot, each of *)
(* which may raise, and completes pending snapshots.                       *)
(***************************************************************************)
EXTENDS Integers, Sequences, FiniteSets, TLC

VARIABLES
    cloud,            \* the provider's snapshots (set of snapshot records)
    next_id,          \* the provider's next fresh SnapshotId
    clock,            \* the provider's current time, StartTime of new snapshots
    volume_ids,       \* self.volume_ids  (event["VolumeIDs"].split(","))
    retention_policy, \* self.retention_policy (the JSON text of the event)
    pc,               \* position of the program
    run,              \* number of invocations of lambda_handler so far
    i,                \* __get_all_snapshots: index into self.volume_ids
    status,           \* __get_all_snapshots: status
    snapshots,        \* self.snapshots / ret of __get_all_snapshots (a dict)
    vi,               \* execute: index into list(self.snapshots.items())
    final_status,     \* execute: final_status
    created,          \* execute: ret["created"]
    deleted,          \* execute: ret["deleted"]
    ti,               \* __delete_old_snapshots: turn of the loop over the tags
    snapshot_ids,     \* __delete_old_snapshots: ids still to delete for the tag
    del_status,       \* __delete_old_snapshots: status
    del_ret,          \* __delete_old_snapshots: ret
    now,              \* __get_backup_tag: datetime.now()
    backup_tag,       \* __get_backup_tag: backup_tag
    calls,            \* the requests sent to the provider in this run, in order
    outcome,          \* how the last invocation ended
    selected,         \* ids chosen by the selection of __delete_old_snapshots
    failed_before     \* history: ids whose delete request failed in the run before

vars == <<cloud, next_id, clock, volume_ids, retention_policy, pc, run, i, status,
          snapshots, vi, final_status, created, deleted, ti, snapshot_ids,
          del_status, del_ret, now, backup_tag, calls, outcome, selected,
          failed_before>>

-----------------------------------------------------------------------------
(* Bounds of the model *)

MaxLen == 3        \* snapshots listed for a volume in the selection specification
MaxKeep == 2       \* largest keep-count of a policy in the selection specification
MaxPolicyTiers == 1 \* tiers a policy names in the selection specification
MaxTime == 3       \* StartTime values 1..MaxTime in the selection specification
MaxExternal == 1   \* snapshots made by others in the run specification
MaxRuns == 2       \* invocations of lambda_handler in the run specification
MaxSnapshotId == 5 \* the provider refuses to create a snapshot beyond this id
MaxStart == 1      \* snapshots of earlier invocations in the retry specification

-----------------------------------------------------------------------------
(* Program constants *)

start_of_day == 19
start_of_month == 1
start_of_year == 1
start_of_week == "Monday"

\* for tag in ["h", "d", "w", "m", "y"]
TagOrder == <<"h", "d", "w", "m", "y">>
Tiers == {TagOrder[k] : k \in 1..Len(TagOrder)}

DayNames == {"Monday", "Tuesday", "Wednesday", "Thursday", "Friday",
             "Saturday", "Sunday"}

\* every value datetime.now() can take, as far as __get_backup_tag reads it
AllTimes == [h : 0..23, d : 1..31, m : 1..12, dayname : DayNames]

-----------------------------------------------------------------------------
(* Helpers *)

Max(a, b) == IF a >= b THEN a ELSE b
Min(a, b) == IF a <= b THEN a ELSE b

RECURSIVE Concat(_)
Concat(ss) == IF ss = <<>> THEN <<>> ELSE Head(ss) \o Concat(Tail(ss))

Range(s) == {s[k] : k \in 1..Len(s)}

\* Python's s[k:] for an integer k (negative k counts from the end)
PySliceFrom(s, k) ==
    LET start == IF k < 0 THEN Max(Len(s) + k, 0) ELSE Min(k, Len(s))
    IN  SubSeq(s, start + 1, Len(s))

\* a tag of a snapshot
Tag(k, v) == [Key |-> k, Value |-> v]

\* a snapshot as describe_snapshots returns it; has_tags = FALSE: no "Tags" key
Snapshot(id, vol, state, start, has_tags, tags) ==
    [SnapshotId |-> id, VolumeId |-> vol, State |-> state, StartTime |-> start,
     HasTags |-> has_tags, Tags |-> tags]

-----------------------------------------------------------------------------
(* Pure functions of SnapshotManagement *)

\* a variant of __get_snapshots_by_backup_tag that counts a snapshot without a
\* BackupTag as hourly
get_snapshots_by_backup_tag_default_h(snaps, backup) ==
    SelectSeq(snaps, LAMBDA x :
        \/ x.HasTags /\ \E k \in 1..Len(x.Tags) : x.Tags[k] = Tag("BackupTag", backup)
        \/ backup = "h" /\ ~(x.HasTags /\ \E k \in 1..Len(x.Tags) :
                                                x.Tags[k].Key = "BackupTag"))

\* a variant of __get_snapshots_by_state that compares with the capitalised
\* state name, which the provider never reports
get_snapshots_by_state_capitalised(snaps, state) ==
    SelectSeq(snaps, LAMBDA x : x.State = "Pending" /\ state = "pending")

\* __get_snapshots_by_state
get_snapshots_by_state(snaps, state) ==
    SelectSeq(snaps, LAMBDA x : x.State = state)

\* __get_snapshots_by_backup_tag: x once for every tag y of x that is
\* BackupTag = backup_tag, for the x that have Tags with a key BackupTag
get_snapshots_by_backup_tag(snaps, backup) ==
    LET with_tags == SelectSeq(snaps, LAMBDA x : x.HasTags)
        with_key  == SelectSeq(with_tags,
                        LAMBDA x : "BackupTag" \in {x.Tags[k].Key : k \in 1..Len(x.Tags)})
        hits(x)   == SelectSeq(x.Tags,
                        LAMBDA y : y.Key = "BackupTag" /\ y.Value = backup)
    IN  Concat([k \in 1..Len(with_key) |->
                  [j \in 1..Len(hits(with_key[k])) |-> with_key[k]]])

\* sorted(snapshots, key=StartTime, reverse=True): stable, newest first
RECURSIVE SortedReverse(_)
SortedReverse(snaps) ==
    IF snaps = <<>> THEN <<>>
    ELSE LET x    == Head(snaps)
             rest == SortedReverse(Tail(snaps))
             \* x goes before every element that does not come strictly before it
             pre  == SelectSeq(rest, LAMBDA y : y.StartTime > x.StartTime)
             post == SelectSeq(rest, LAMBDA y : y.StartTime <= x.StartTime)
         IN  pre \o <<x>> \o post

\* a variant of __get_oldest_snapshot_ids that does not sort: it takes the ids
\* from the end of the list in the order the provider returned it
get_last_listed_snapshot_ids(snaps, number_of_snapshots) ==
    LET ids == [k \in 1..Len(snaps) |-> snaps[k].SnapshotId]
    IN  PySliceFrom(ids, 0 - number_of_snapshots)

\* a variant of __get_oldest_snapshot_ids that sorts oldest first (reverse=False)
\* and so keeps the oldest and returns the newest
get_newest_snapshot_ids(snaps, number_of_snapshots) ==
    LET sorted == SortedReverse(snaps)
        ids    == [k \in 1..Len(sorted) |-> sorted[Len(sorted) + 1 - k].SnapshotId]
    IN  PySliceFrom(ids, 0 - number_of_snapshots)

\* __get_oldest_snapshot_ids
get_oldest_snapshot_ids(snaps, number_of_snapshots) ==
    LET sorted == SortedReverse(snaps)
        ids    == [k \in 1..Len(sorted) |-> sorted[k].SnapshotId]
    IN  PySliceFrom(ids, 0 - number_of_snapshots)

\* the boundary conditions __get_backup_tag tests, in the order it tests them
\* (lines 122-126, 129-132, 135-138, 141-143)
condition_y(t) == t.h = start_of_day /\ t.d = start_of_month /\ t.m = start_of_year
condition_m(t) == t.h = start_of_day /\ t.d = start_of_month
condition_w(t) == t.h = start_of_day /\ t.dayname = start_of_week
condition_d(t) == t.h = start_of_day

\* a variant of __get_backup_tag whose weekly condition does not test the hour
get_backup_tag_week_any_hour(t) ==
    IF t.h = start_of_day /\ t.d = start_of_month /\ t.m = start_of_year THEN "y"
    ELSE IF t.h = start_of_day /\ t.d = start_of_month THEN "m"
    ELSE IF t.dayname = start_of_week THEN "w"
    ELSE IF t.h = start_of_day THEN "d"
    ELSE "h"

\* a variant of __get_backup_tag that tests the monthly boundary before the
\* yearly one
get_backup_tag_month_first(t) ==
    IF t.h = start_of_day /\ t.d = start_of_month THEN "m"
    ELSE IF t.h = start_of_day /\ t.d = start_of_month /\ t.m = start_of_year THEN "y"
    ELSE IF t.h = start_of_day /\ t.dayname = start_of_week THEN "w"
    ELSE IF t.h = start_of_day THEN "d"
    ELSE "h"

\* __get_backup_tag, as a function of datetime.now()
get_backup_tag(t) ==
    IF t.h = start_of_day /\ t.d = start_of_month /\ t.m = start_of_year THEN "y"
    ELSE IF t.h = start_of_day /\ t.d = start_of_month THEN "m"
    ELSE IF t.h = start_of_day /\ t.dayname = start_of_week THEN "w"
    ELSE IF t.h = start_of_day THEN "d"
    ELSE "h"

\* json.loads(self.retention_policy): the text either parses to a dict
\* (tier label -> integer) or json.loads raises
json_loads_ok(text) == text.valid
json_loads(text) == text.value

\* a variant of the selection that spares one snapshot more than the
\* keep-count of a tier the policy names
select_snapshot_ids_keep_one_more(snaps, policy, tag) ==
    LET group == get_snapshots_by_backup_tag(snaps, tag)
    IN  IF tag \in DOMAIN policy
        THEN LET diff == Len(group) - policy[tag] - 1
             IN  IF diff > 0 THEN get_oldest_snapshot_ids(group, diff) ELSE <<>>
        ELSE IF Len(group) > 0 THEN get_oldest_snapshot_ids(group, 0) ELSE <<>>

\* a variant of the selection that keeps the snapshots of a tier the policy
\* does not name
select_snapshot_ids_keep_absent(snaps, policy, tag) ==
    LET group == get_snapshots_by_backup_tag(snaps, tag)
    IN  IF tag \in DOMAIN policy
        THEN LET diff == Len(group) - policy[tag]
             IN  IF diff > 0 THEN get_oldest_snapshot_ids(group, diff) ELSE <<>>
        ELSE <<>>

\* __delete_old_snapshots, lines 156-171: the ids selected for one tag
select_snapshot_ids(snaps, policy, tag) ==
    LET group == get_snapshots_by_backup_tag(snaps, tag)
    IN  IF tag \in DOMAIN policy
        THEN LET diff == Len(group) - policy[tag]
             IN  IF diff > 0 THEN get_oldest_snapshot_ids(group, diff) ELSE <<>>
        ELSE IF Len(group) > 0 THEN get_oldest_snapshot_ids(group, 0) ELSE <<>>

\* __delete_old_snapshots: the ids of all delete requests, in request order
select_all(snaps, policy) ==
    Concat([k \in 1..Len(TagOrder) |-> select_snapshot_ids(snaps, policy, TagOrder[k])])

-----------------------------------------------------------------------------
(* Inputs of the run specification *)

Volumes == {"vol-1", "vol-2"}

\* event["VolumeIDs"].split(","): one or two ids, possibly the same id twice
VolumeConfigs == {<<"vol-1">>, <<"vol-1", "vol-2">>, <<"vol-2", "vol-1">>,
                  <<"vol-1", "vol-1">>}

\* event["RetentionPolicy"]: a text json.loads rejects, or the JSON of a dict
InvalidPolicyText == [valid |-> FALSE, value |-> <<>>]
PolicyText(policy) == [valid |-> TRUE, value |-> policy]

\* the dicts of tier label -> keep-count over the labels ls with counts in ks
PoliciesOver(ls, ks) == UNION {[D -> ks] : D \in SUBSET ls}

RunPolicyTiers == {"h"}
RunPolicies == {InvalidPolicyText} \cup
               {PolicyText(p) : p \in PoliciesOver(RunPolicyTiers, {-1, 0, 1})}

\* values of datetime.now(): the daily and an hourly run of an ordinary day
RunTimes == [h : {start_of_day, 7}, d : {15}, m : {6}, dayname : {"Thursday"}]

\* the tags __create_snapshot puts on a snapshot (lines 204-229)
CreateTags(tag) ==
    <<Tag("Name", "cluster"), Tag("ProductDomain", "product_domain"),
      Tag("Service", "service"), Tag("Cluster", "cluster"),
      Tag("Application", "application"), Tag("BackupTag", tag)>>

\* snapshots made by others: without Tags, with Tags but no BackupTag, or with
\* a BackupTag (an earlier deployment of this program)
ExternalTags ==
    {[has |-> FALSE, tags |-> <<>>], [has |-> TRUE, tags |-> <<Tag("Name", "manual")>>]}
    \cup {[has |-> TRUE, tags |-> <<Tag("BackupTag", t)>>] : t \in {"h", "w"}}

\* every order in which describe_snapshots may return the set S
Orderings(S) ==
    {s \in [1..Cardinality(S) -> S] : \A a, b \in 1..Cardinality(S) : s[a] = s[b] => a = b}

\* the keys of a dict filled in the order of vs: first occurrences, in order
RECURSIVE DictKeys(_)
DictKeys(vs) ==
    IF vs = <<>> THEN <<>>
    ELSE LET front == DictKeys(SubSeq(vs, 1, Len(vs) - 1))
             last  == vs[Len(vs)]
         IN  IF last \in Range(front) THEN front ELSE Append(front, last)

NoTime == [h |-> 0, d |-> 1, m |-> 1, dayname |-> "Monday"]
EmptyDict == [v \in {} |-> <<>>]

Call(op, volume, id, ok) == [op |-> op, volume |-> volume, id |-> id, ok |-> ok]
Entry(kind, id) == [kind |-> kind, id |-> id]

-----------------------------------------------------------------------------
(* Initial state: the program is constructed from an event; the provider    *)
(* holds no snapshot yet                                                     *)

ProgramIdle ==
    /\ pc = "idle"
    /\ run = 0
    /\ i = 1
    /\ status = TRUE
    /\ vi = 1
    /\ final_status = TRUE
    /\ created = EmptyDict
    /\ deleted = EmptyDict
    /\ ti = 1
    /\ snapshot_ids = <<>>
    /\ del_status = TRUE
    /\ del_ret = <<>>
    /\ now = NoTime
    /\ backup_tag = "none"
    /\ calls = <<>>
    /\ outcome = "none"
    /\ selected = <<>>
    /\ failed_before = {}

Init ==
    /\ cloud = {}
    /\ next_id = 1
    /\ clock = 1
    /\ volume_ids \in VolumeConfigs
    /\ retention_policy \in RunPolicies
    /\ ProgramIdle
    /\ snapshots = EmptyDict

-----------------------------------------------------------------------------
(* The provider between two invocations *)

provider_vars == <<cloud, next_id, clock>>
event_vars == <<volume_ids, retention_policy>>
list_vars == <<i, status, snapshots>>
execute_vars == <<vi, final_status, created, deleted>>
delete_vars == <<ti, snapshot_ids, del_status, del_ret, selected>>
tag_vars == <<now, backup_tag>>

\* somebody else creates a snapshot of a volume
ExternalSnapshot ==
    /\ pc = "idle"
    /\ run = 0
    /\ next_id <= MaxExternal
    /\ \E v \in Range(volume_ids), st \in {"pending", "completed"}, tg \in ExternalTags :
          cloud' = cloud \cup {Snapshot(next_id, v, st, clock, tg.has, tg.tags)}
    /\ clock' = clock + 1
    /\ next_id' = next_id + 1
    /\ UNCHANGED <<event_vars, failed_before, pc, run, list_vars, execute_vars, delete_vars,
                   tag_vars, calls, outcome>>

\* a pending snapshot completes before the next invocation
SnapshotCompletes ==
    /\ pc = "idle"
    /\ run < MaxRuns
    /\ \E x \in cloud :
          /\ x.State = "pending"
          /\ cloud' = (cloud \ {x}) \cup {[x EXCEPT !.State = "completed"]}
    /\ UNCHANGED <<next_id, clock, event_vars, failed_before, pc, run, list_vars, execute_vars,
                   delete_vars, tag_vars, calls, outcome>>

-----------------------------------------------------------------------------
(* lambda_handler and SnapshotManagement *)

\* the ids whose delete request failed in the run that has just ended
FailedDeletes ==
    {calls[k].id : k \in {j \in 1..Len(calls) :
                             calls[j].op = "delete_snapshot" /\ ~calls[j].ok}}

\* lambda_handler is invoked: __init__ up to the call of __get_all_snapshots
LambdaHandler ==
    /\ pc = "idle"
    /\ run < MaxRuns
    /\ pc' = "get_all_snapshots"
    /\ run' = run + 1
    /\ i' = 1
    /\ status' = TRUE
    /\ snapshots' = EmptyDict
    /\ vi' = 1
    /\ final_status' = TRUE
    /\ created' = EmptyDict
    /\ deleted' = EmptyDict
    /\ ti' = 1
    /\ snapshot_ids' = <<>>
    /\ del_status' = TRUE
    /\ del_ret' = <<>>
    /\ selected' = <<>>
    /\ calls' = <<>>
    /\ outcome' = "running"
    /\ failed_before' = FailedDeletes
    /\ UNCHANGED <<provider_vars, event_vars, tag_vars>>

\* a variant of the listing loop that exits at the first describe_snapshots
\* request that raises, without listing the remaining volumes
DescribeSnapshotsExitsAtOnce ==
    /\ pc = "get_all_snapshots"
    /\ i <= Len(volume_ids)
    /\ LET volume_id == volume_ids[i]
           found == {x \in cloud : x.VolumeId = volume_id
                                   /\ x.State \in {"pending", "completed"}}
       IN  \E ok \in BOOLEAN :
              /\ calls' = Append(calls, Call("describe_snapshots", volume_id, 0, ok))
              /\ IF ok
                 THEN /\ \E listed \in Orderings(found) :
                            snapshots' = (volume_id :> listed) @@ snapshots
                      /\ status' = status
                      /\ pc' = pc
                      /\ outcome' = outcome
                 ELSE /\ status' = FALSE
                      /\ snapshots' = snapshots
                      /\ pc' = "idle"
                      /\ outcome' = "exit_429"
    /\ i' = i + 1
    /\ UNCHANGED <<provider_vars, event_vars, failed_before, run, execute_vars, delete_vars,
                   tag_vars>>

\* __get_all_snapshots, one turn of the loop: describe_snapshots of a volume
\* (states pending and completed), which may raise
DescribeSnapshots ==
    /\ pc = "get_all_snapshots"
    /\ i <= Len(volume_ids)
    /\ LET volume_id == volume_ids[i]
           found == {x \in cloud : x.VolumeId = volume_id
                                   /\ x.State \in {"pending", "completed"}}
       IN  \E ok \in BOOLEAN :
              /\ calls' = Append(calls, Call("describe_snapshots", volume_id, 0, ok))
              /\ IF ok
                 THEN /\ \E listed \in Orderings(found) :
                            snapshots' = (volume_id :> listed) @@ snapshots
                      /\ status' = status
                 ELSE /\ status' = FALSE
                      /\ snapshots' = snapshots
    /\ i' = i + 1
    /\ UNCHANGED <<provider_vars, event_vars, failed_before, pc, run, execute_vars, delete_vars,
                   tag_vars, outcome>>

\* a variant of the end of __get_all_snapshots that exits only when no listing
\* succeeded
GetAllSnapshotsReturnUnlessAllFailed ==
    /\ pc = "get_all_snapshots"
    /\ i > Len(volume_ids)
    /\ IF DOMAIN snapshots = {}
       THEN /\ pc' = "idle"
            /\ outcome' = "exit_429"
       ELSE /\ pc' = "execute"
            /\ outcome' = outcome
    /\ UNCHANGED <<provider_vars, event_vars, failed_before, run, list_vars, execute_vars,
                   delete_vars, tag_vars, calls>>

\* __get_all_snapshots after the loop: exit(429) or return ret
GetAllSnapshotsReturn ==
    /\ pc = "get_all_snapshots"
    /\ i > Len(volume_ids)
    /\ IF ~status
       THEN /\ pc' = "idle"
            /\ outcome' = "exit_429"
       ELSE /\ pc' = "execute"
            /\ outcome' = outcome
    /\ UNCHANGED <<provider_vars, event_vars, failed_before, run, list_vars, execute_vars,
                   delete_vars, tag_vars, calls>>

\* a variant of list(self.snapshots.items()) that yields the volumes in the
\* reverse of the order in which they were listed
ItemsReversed ==
    LET items == SelectSeq(DictKeys(volume_ids), LAMBDA v : v \in DOMAIN snapshots)
    IN  [k \in 1..Len(items) |-> items[Len(items) + 1 - k]]

\* list(self.snapshots.items()): the keys of the dict, in the order in which
\* __get_all_snapshots put them
Items == SelectSeq(DictKeys(volume_ids), LAMBDA v : v \in DOMAIN snapshots)

\* a variant of __create_snapshot whose new snapshot is added to the listing
\* of the volume, as if the volume were listed again after the creation
CreateSnapshotRefreshesListing ==
    /\ pc = "execute"
    /\ vi <= Len(Items)
    /\ LET volume_id == Items[vi]
       IN  /\ get_snapshots_by_state(snapshots[volume_id], "pending") = <<>>
           /\ \E t \in RunTimes, ok \in BOOLEAN :
                 /\ ok => next_id <= MaxSnapshotId
                 /\ IF ok
                    THEN /\ cloud' = cloud \cup
                               {Snapshot(next_id, volume_id, "pending", clock, TRUE,
                                         CreateTags(get_backup_tag(t)))}
                         /\ next_id' = next_id + 1
                         /\ clock' = clock + 1
                         /\ calls' = Append(calls,
                               Call("create_snapshot", volume_id, next_id, TRUE))
                         /\ created' = (volume_id :> Entry("snapshot_id", next_id))
                                        @@ created
                         /\ final_status' = final_status
                         /\ snapshots' = [snapshots EXCEPT ![volume_id] =
                               Append(@, Snapshot(next_id, volume_id, "pending", clock,
                                                  TRUE, CreateTags(get_backup_tag(t))))]
                    ELSE /\ UNCHANGED provider_vars
                         /\ calls' = Append(calls,
                               Call("create_snapshot", volume_id, 0, FALSE))
                         /\ created' = (volume_id :> Entry("failed_to_create", 0))
                                        @@ created
                         /\ final_status' = FALSE
                         /\ snapshots' = snapshots
    /\ pc' = "delete_old_snapshots"
    /\ UNCHANGED <<event_vars, failed_before, run, i, status, vi, deleted, delete_vars, tag_vars,
                   outcome>>

\* execute, lines 256-271, without a pending snapshot: __create_snapshot,
\* whose create_snapshot request may raise
CreateSnapshot ==
    /\ pc = "execute"
    /\ vi <= Len(Items)
    /\ LET volume_id == Items[vi]
       IN  /\ get_snapshots_by_state(snapshots[volume_id], "pending") = <<>>
           /\ \E t \in RunTimes, ok \in BOOLEAN :
                 /\ ok => next_id <= MaxSnapshotId
                 /\ IF ok
                    THEN /\ cloud' = cloud \cup
                               {Snapshot(next_id, volume_id, "pending", clock, TRUE,
                                         CreateTags(get_backup_tag(t)))}
                         /\ next_id' = next_id + 1
                         /\ clock' = clock + 1
                         /\ calls' = Append(calls,
                               Call("create_snapshot", volume_id, next_id, TRUE))
                         /\ created' = (volume_id :> Entry("snapshot_id", next_id))
                                        @@ created
                         /\ final_status' = final_status
                    ELSE /\ UNCHANGED provider_vars
                         /\ calls' = Append(calls,
                               Call("create_snapshot", volume_id, 0, FALSE))
                         /\ created' = (volume_id :> Entry("failed_to_create", 0))
                                        @@ created
                         /\ final_status' = FALSE
    /\ pc' = "delete_old_snapshots"
    /\ UNCHANGED <<event_vars, failed_before, run, list_vars, vi, deleted, delete_vars, tag_vars,
                   outcome>>

\* execute, lines 256-271, with a pending snapshot: no request
PendingSnapshotDetected ==
    /\ pc = "execute"
    /\ vi <= Len(Items)
    /\ LET volume_id == Items[vi]
       IN  /\ get_snapshots_by_state(snapshots[volume_id], "pending") # <<>>
           /\ created' = (volume_id :> Entry("pending_aborted", 0)) @@ created
    /\ final_status' = (final_status /\ TRUE)
    /\ pc' = "delete_old_snapshots"
    /\ UNCHANGED <<provider_vars, event_vars, failed_before, run, list_vars, vi, deleted,
                   delete_vars, tag_vars, calls, outcome>>

\* __delete_old_snapshots, lines 151-171: json.loads, which may raise out of
\* execute and lambda_handler, then the selection for the first tag
DeleteOldSnapshotsBegin ==
    /\ pc = "delete_old_snapshots"
    /\ IF ~json_loads_ok(retention_policy)
       THEN /\ pc' = "idle"
            /\ outcome' = "raised"
            /\ UNCHANGED delete_vars
       ELSE /\ pc' = "deleting"
            /\ outcome' = outcome
            /\ ti' = 1
            /\ del_status' = TRUE
            /\ del_ret' = <<>>
            /\ snapshot_ids' = select_snapshot_ids(snapshots[Items[vi]],
                                   json_loads(retention_policy), TagOrder[1])
            /\ selected' = snapshot_ids'
    /\ UNCHANGED <<provider_vars, event_vars, failed_before, run, list_vars, execute_vars,
                   tag_vars, calls>>

\* a variant of the delete loop that gives up the remaining ids of the tag
\* when a delete_snapshot request raises
DeleteSnapshotStopAtFailure ==
    /\ pc = "deleting"
    /\ snapshot_ids # <<>>
    /\ LET snapshot_id == Head(snapshot_ids)
       IN  \E ok \in BOOLEAN :
              /\ ok => \E x \in cloud : x.SnapshotId = snapshot_id
              /\ calls' = Append(calls,
                    Call("delete_snapshot", Items[vi], snapshot_id, ok))
              /\ IF ok
                 THEN /\ cloud' = {x \in cloud : x.SnapshotId # snapshot_id}
                      /\ del_ret' = Append(del_ret, Entry("snapshot_id", snapshot_id))
                      /\ del_status' = del_status
                      /\ snapshot_ids' = Tail(snapshot_ids)
                 ELSE /\ cloud' = cloud
                      /\ del_ret' = Append(del_ret, Entry("failed_to_delete", snapshot_id))
                      /\ del_status' = FALSE
                      /\ snapshot_ids' = <<>>
    /\ UNCHANGED <<next_id, clock, event_vars, failed_before, pc, run, list_vars, execute_vars,
                   ti, selected, tag_vars, outcome>>

\* a variant of the delete loop that sends a failed delete_snapshot request a
\* second time before it goes on to the next id
DeleteSnapshotRetriesOnce ==
    /\ pc = "deleting"
    /\ snapshot_ids # <<>>
    /\ LET snapshot_id == Head(snapshot_ids)
           retried == /\ calls # <<>>
                      /\ calls[Len(calls)] =
                            Call("delete_snapshot", Items[vi], snapshot_id, FALSE)
       IN  \E ok \in BOOLEAN :
              /\ ok => \E x \in cloud : x.SnapshotId = snapshot_id
              /\ calls' = Append(calls,
                    Call("delete_snapshot", Items[vi], snapshot_id, ok))
              /\ IF ok
                 THEN /\ cloud' = {x \in cloud : x.SnapshotId # snapshot_id}
                      /\ del_ret' = Append(del_ret, Entry("snapshot_id", snapshot_id))
                      /\ del_status' = del_status
                      /\ snapshot_ids' = Tail(snapshot_ids)
                 ELSE /\ cloud' = cloud
                      /\ del_ret' = Append(del_ret, Entry("failed_to_delete", snapshot_id))
                      /\ del_status' = FALSE
                      /\ snapshot_ids' = IF retried THEN Tail(snapshot_ids)
                                         ELSE snapshot_ids
    /\ UNCHANGED <<next_id, clock, event_vars, failed_before, pc, run, list_vars, execute_vars,
                   ti, selected, tag_vars, outcome>>

\* __delete_old_snapshots, lines 173-192: one delete_snapshot request, which
\* may raise; it succeeds only for a snapshot the provider holds
DeleteSnapshot ==
    /\ pc = "deleting"
    /\ snapshot_ids # <<>>
    /\ LET snapshot_id == Head(snapshot_ids)
       IN  \E ok \in BOOLEAN :
              /\ ok => \E x \in cloud : x.SnapshotId = snapshot_id
              /\ calls' = Append(calls,
                    Call("delete_snapshot", Items[vi], snapshot_id, ok))
              /\ IF ok
                 THEN /\ cloud' = {x \in cloud : x.SnapshotId # snapshot_id}
                      /\ del_ret' = Append(del_ret, Entry("snapshot_id", snapshot_id))
                      /\ del_status' = del_status
                 ELSE /\ cloud' = cloud
                      /\ del_ret' = Append(del_ret, Entry("failed_to_delete", snapshot_id))
                      /\ del_status' = FALSE
    /\ snapshot_ids' = Tail(snapshot_ids)
    /\ UNCHANGED <<next_id, clock, event_vars, failed_before, pc, run, list_vars, execute_vars,
                   ti, selected, tag_vars, outcome>>

\* __delete_old_snapshots, lines 155-171: the selection for the next tag
NextTag ==
    /\ pc = "deleting"
    /\ snapshot_ids = <<>>
    /\ ti < Len(TagOrder)
    /\ ti' = ti + 1
    /\ snapshot_ids' = select_snapshot_ids(snapshots[Items[vi]],
                           json_loads(retention_policy), TagOrder[ti + 1])
    /\ selected' = selected \o snapshot_ids'
    /\ UNCHANGED <<provider_vars, event_vars, failed_before, pc, run, list_vars, execute_vars,
                   del_status, del_ret, tag_vars, calls, outcome>>

\* a variant of execute, line 276, that overwrites final_status with the status
\* of the deletions
DeleteOldSnapshotsReturnOverwrites ==
    /\ pc = "deleting"
    /\ snapshot_ids = <<>>
    /\ ti = Len(TagOrder)
    /\ deleted' = (Items[vi] :> del_ret) @@ deleted
    /\ final_status' = del_status
    /\ vi' = vi + 1
    /\ pc' = "execute"
    /\ UNCHANGED <<provider_vars, event_vars, failed_before, run, list_vars, created, delete_vars,
                   tag_vars, calls, outcome>>

\* __delete_old_snapshots returns; execute, lines 273-276
DeleteOldSnapshotsReturn ==
    /\ pc = "deleting"
    /\ snapshot_ids = <<>>
    /\ ti = Len(TagOrder)
    /\ deleted' = (Items[vi] :> del_ret) @@ deleted
    /\ final_status' = (final_status /\ del_status)
    /\ vi' = vi + 1
    /\ pc' = "execute"
    /\ UNCHANGED <<provider_vars, event_vars, failed_before, run, list_vars, created, delete_vars,
                   tag_vars, calls, outcome>>

\* execute returns; lambda_handler, lines 284-288
ExecuteReturn ==
    /\ pc = "execute"
    /\ vi > Len(Items)
    /\ pc' = "idle"
    /\ outcome' = IF final_status THEN "returned" ELSE "exit_-1"
    /\ UNCHANGED <<provider_vars, event_vars, failed_before, run, list_vars, execute_vars,
                   delete_vars, tag_vars, calls>>

Next ==
    \/ ExternalSnapshot
    \/ SnapshotCompletes
    \/ LambdaHandler
    \/ DescribeSnapshots
    \/ GetAllSnapshotsReturn
    \/ CreateSnapshot
    \/ PendingSnapshotDetected
    \/ DeleteOldSnapshotsBegin
    \/ DeleteSnapshot
    \/ NextTag
    \/ DeleteOldSnapshotsReturn
    \/ ExecuteReturn

Spec == Init /\ [][Next]_vars

-----------------------------------------------------------------------------
(* The selection of __delete_old_snapshots on its own: any listed snapshots *)
(* of one volume, any retention policy with keep-counts >= 0               *)

\* Tags of a listed snapshot: none, without BackupTag, or BackupTag = a tier
SelectTags ==
    {[has |-> FALSE, tags |-> <<>>], [has |-> TRUE, tags |-> <<Tag("Name", "manual")>>]}
    \cup {[has |-> TRUE, tags |-> <<Tag("Name", "cluster"), Tag("BackupTag", t)>>] :
            t \in Tiers}

\* a list of n snapshots with the StartTimes tm and the Tags tg; the k-th has
\* SnapshotId k
SelectList(n, tm, tg) ==
    [k \in 1..n |-> Snapshot(k, "vol-1", "completed", tm[k], tg[k].has, tg[k].tags)]

SelectPolicies ==
    {p \in PoliciesOver(Tiers, 0..MaxKeep) : Cardinality(DOMAIN p) <= MaxPolicyTiers}

InitSelect ==
    /\ cloud = {}
    /\ next_id = 1
    /\ clock = 1
    /\ volume_ids = <<"vol-1">>
    /\ \E p \in SelectPolicies : retention_policy = PolicyText(p)
    /\ ProgramIdle
    /\ \E n \in 0..MaxLen :
          \E tm \in [1..n -> 1..MaxTime], tg \in [1..n -> SelectTags] :
              snapshots = ("vol-1" :> SelectList(n, tm, tg))

\* __delete_old_snapshots, lines 152-171 for every tag: the ids it will request
\* to delete
SelectForDeletion ==
    /\ pc = "idle"
    /\ pc' = "selected"
    /\ selected' = select_all(snapshots["vol-1"], json_loads(retention_policy))
    /\ UNCHANGED <<provider_vars, event_vars, failed_before, run, list_vars, execute_vars, ti,
                   snapshot_ids, del_status, del_ret, tag_vars, calls, outcome>>

NextSelect == SelectForDeletion

SpecSelect == InitSelect /\ [][NextSelect]_vars

-----------------------------------------------------------------------------
(* __get_backup_tag on its own: any value of datetime.now()                *)

InitClassify ==
    /\ cloud = {}
    /\ next_id = 1
    /\ clock = 1
    /\ volume_ids = <<"vol-1">>
    /\ retention_policy = PolicyText(<<>>)
    /\ pc = "idle"
    /\ run = 0
    /\ i = 1
    /\ status = TRUE
    /\ snapshots = EmptyDict
    /\ vi = 1
    /\ final_status = TRUE
    /\ created = EmptyDict
    /\ deleted = EmptyDict
    /\ ti = 1
    /\ snapshot_ids = <<>>
    /\ del_status = TRUE
    /\ del_ret = <<>>
    /\ now \in AllTimes
    /\ backup_tag = "none"
    /\ calls = <<>>
    /\ outcome = "none"
    /\ selected = <<>>
    /\ failed_before = {}

\* __get_backup_tag, lines 122-148
GetBackupTag ==
    /\ pc = "idle"
    /\ pc' = "tagged"
    /\ backup_tag' = get_backup_tag(now)
    /\ UNCHANGED <<provider_vars, event_vars, failed_before, run, list_vars, execute_vars,
                   delete_vars, now, calls, outcome>>

NextClassify == GetBackupTag

SpecClassify == InitClassify /\ [][NextClassify]_vars

-----------------------------------------------------------------------------
(* Recurring invocations: lambda_handler is invoked again and again by its  *)
(* schedule, with the same event; vol-1 already has snapshots of earlier    *)
(* invocations                                                              *)

\* the n hourly snapshots earlier invocations left, with distinct StartTimes;
\* the provider has one more id to give (next_id = MaxSnapshotId)
StartSnapshots(n) ==
    {Snapshot(k, "vol-1", "completed", k, TRUE, CreateTags("h")) : k \in 1..n}

InitRetry ==
    /\ \E n \in 0..MaxStart : cloud = StartSnapshots(n)
    /\ next_id = MaxSnapshotId
    /\ clock = MaxStart + 1
    /\ volume_ids \in {<<"vol-1">>, <<"vol-2", "vol-1">>}
    /\ retention_policy \in {q \in RunPolicies : json_loads_ok(q)}
    /\ ProgramIdle
    /\ snapshots = EmptyDict

\* lambda_handler is invoked by the schedule, any number of times (the
\* counter run of the run specification is not used)
LambdaHandlerRecurring ==
    /\ pc = "idle"
    /\ pc' = "get_all_snapshots"
    /\ i' = 1
    /\ status' = TRUE
    /\ snapshots' = EmptyDict
    /\ vi' = 1
    /\ final_status' = TRUE
    /\ created' = EmptyDict
    /\ deleted' = EmptyDict
    /\ ti' = 1
    /\ snapshot_ids' = <<>>
    /\ del_status' = TRUE
    /\ del_ret' = <<>>
    /\ selected' = <<>>
    /\ calls' = <<>>
    /\ outcome' = "running"
    /\ failed_before' = FailedDeletes
    /\ UNCHANGED <<provider_vars, event_vars, run, tag_vars>>

NextRetry ==
    \/ SnapshotCompletes
    \/ LambdaHandlerRecurring
    \/ DescribeSnapshots
    \/ GetAllSnapshotsReturn
    \/ CreateSnapshot
    \/ PendingSnapshotDetected
    \/ DeleteOldSnapshotsBegin
    \/ DeleteSnapshot
    \/ NextTag
    \/ DeleteOldSnapshotsReturn
    \/ ExecuteReturn

\* the program and the schedule do not stop; the list request of the first
\* and of the second configured volume does not fail forever (status' holds
\* when the request and the ones before it in the run succeeded), and neither
\* do the delete requests
FairnessRetry ==
    /\ WF_vars(NextRetry)
    /\ \A k \in 1..2 : SF_vars(DescribeSnapshots /\ i = k /\ status')
    /\ SF_vars(DeleteSnapshot /\ cloud' # cloud)

SpecRetry == InitRetry /\ [][NextRetry]_vars /\ FairnessRetry

-----------------------------------------------------------------------------
(* Vocabulary of the properties *)

\* x carries the tag BackupTag = t
HasBackupTag(x, t) ==
    x.HasTags /\ \E k \in 1..Len(x.Tags) : x.Tags[k] = Tag("BackupTag", t)

\* x has no tag with the key BackupTag (no Tags at all, or Tags without it)
NoBackupTag(x) ==
    ~(x.HasTags /\ \E k \in 1..Len(x.Tags) : x.Tags[k].Key = "BackupTag")

\* the snapshots of the t-group of a list
Group(snaps, t) == {x \in Range(snaps) : HasBackupTag(x, t)}

\* the keep-count of a tier: policy[t], or 0 when the policy does not name t
Keep(policy, t) == IF t \in DOMAIN policy THEN policy[t] ELSE 0

\* the positions of a sequence of ids that name a snapshot of the set S
PositionsOf(ids, S) == {k \in 1..Len(ids) : \E x \in S : x.SnapshotId = ids[k]}

-----------------------------------------------------------------------------
(* C1: for every tier t, the selection of __delete_old_snapshots holds      *)
(* exactly max(0, |group| - keep) snapshots of the t-group, keep being      *)
(* policy[t] or 0 when t is absent, each id once, and they are the oldest:  *)
(* no unselected snapshot of the group has an earlier StartTime than a      *)
(* selected one. Checked for every list and policy with keep-counts >= 0.   *)
C1_SelectsOldestExcess ==
    pc = "selected" =>
        LET snaps  == snapshots["vol-1"]
            policy == json_loads(retention_policy)
        IN  \A t \in Tiers :
              LET group == Group(snaps, t)
                  sel   == {x \in group : x.SnapshotId \in Range(selected)}
              IN  /\ Cardinality(PositionsOf(selected, group))
                        = Max(0, Cardinality(group) - Keep(policy, t))
                  /\ Cardinality(sel) = Cardinality(PositionsOf(selected, group))
                  /\ \A x \in sel, y \in group \ sel : x.StartTime <= y.StartTime

\* Scenario A, tier h: keep-count 2, three hourly snapshots T1 < T2 < T3, listed
\* newest first: exactly the one of T1 is selected
C1_Witness ==
    /\ pc = "selected"
    /\ json_loads(retention_policy) = ("h" :> 2)
    /\ Len(snapshots["vol-1"]) = 3
    /\ \A k \in 1..3 : /\ HasBackupTag(snapshots["vol-1"][k], "h")
                       /\ snapshots["vol-1"][k].StartTime = 4 - k
    /\ selected = <<3>>

-----------------------------------------------------------------------------
(* C3: when the policy does not name a tier whose group is not empty, every *)
(* snapshot of the group is selected, and the whole selection is the one    *)
(* made under the same policy with that tier at keep-count 0.               *)
C3_AbsentTierDeletesAll ==
    pc = "selected" =>
        LET snaps  == snapshots["vol-1"]
            policy == json_loads(retention_policy)
        IN  \A t \in Tiers :
              (t \notin DOMAIN policy /\ Group(snaps, t) # {}) =>
                 /\ \A x \in Group(snaps, t) : x.SnapshotId \in Range(selected)
                 /\ selected = select_all(snaps, (t :> 0) @@ policy)

\* Scenario B: no keep-count for w, two weekly snapshots: both are selected
C3_Witness ==
    /\ pc = "selected"
    /\ "w" \notin DOMAIN json_loads(retention_policy)
    /\ "h" \in DOMAIN json_loads(retention_policy)
    /\ Cardinality(Group(snapshots["vol-1"], "w")) = 2
    /\ Len(selected) = 2
    /\ \A x \in Group(snapshots["vol-1"], "w") : x.SnapshotId \in Range(selected)

-----------------------------------------------------------------------------
(* C4: __get_backup_tag returns exactly one label for every current time,   *)
(* the first match in the order y, m, w, d, h: y iff hour = start of day,   *)
(* day = start of month and month = start of year; else m iff hour and day  *)
(* match; else w iff hour and weekday match; else d iff the hour matches;   *)
(* else h. A time on the yearly boundary is labelled y.                     *)
C4_ClassifierPriority ==
    pc = "tagged" =>
        LET day   == now.h = start_of_day
            year  == day /\ now.d = start_of_month /\ now.m = start_of_year
            month == day /\ now.d = start_of_month
            week  == day /\ now.dayname = start_of_week
        IN  /\ backup_tag \in Tiers
            /\ backup_tag = "y" <=> year
            /\ backup_tag = "m" <=> (~year /\ month)
            /\ backup_tag = "w" <=> (~year /\ ~month /\ week)
            /\ backup_tag = "d" <=> (~year /\ ~month /\ ~week /\ day)
            /\ backup_tag = "h" <=> ~day

\* Scenario E: a Monday at the start of day, month and year is labelled y
C4_Witness ==
    /\ pc = "tagged"
    /\ now = [h |-> start_of_day, d |-> start_of_month, m |-> start_of_year,
              dayname |-> start_of_week]
    /\ backup_tag = "y"

-----------------------------------------------------------------------------
(* Vocabulary of the properties of a run *)

\* the requests op of this run for a volume, in order
CallsOf(op, v) == SelectSeq(calls, LAMBDA c : c.op = op /\ c.volume = v)

\* the ids of the delete requests of this run for a volume, in order
DeleteIds(v) == [k \in 1..Len(CallsOf("delete_snapshot", v)) |->
                    CallsOf("delete_snapshot", v)[k].id]

\* the describe_snapshots requests of this run, in order
DescribeCalls == SelectSeq(calls, LAMBDA c : c.op = "describe_snapshots")

\* some create or delete request of this run failed
SomeRequestFailed ==
    \E k \in 1..Len(calls) :
        calls[k].op \in {"create_snapshot", "delete_snapshot"} /\ ~calls[k].ok

\* the listing of volume v holds a pending snapshot
HasPending(v) == \E x \in Range(snapshots[v]) : x.State = "pending"

\* every snapshot listed in this run
Listed == UNION {Range(snapshots[v]) : v \in DOMAIN snapshots}

\* the invocation has ended: exit(429), exit(-1), an exception or a return
RunEnded == pc = "idle" /\ outcome \notin {"none", "running"}

-----------------------------------------------------------------------------
(* C2: a snapshot without a BackupTag (no Tags, or Tags without that key)   *)
(* is never the target of a delete request and never appears in a deleted   *)
(* report, under every policy and in every run; the provider keeps it.      *)
C2_UntaggedNeverDeleted ==
    \A x \in cloud \cup Listed :
        NoBackupTag(x) =>
            /\ \A k \in 1..Len(calls) :
                  calls[k].op = "delete_snapshot" => calls[k].id # x.SnapshotId
            /\ \A k \in 1..Len(del_ret) : del_ret[k].id # x.SnapshotId
            /\ \A v \in DOMAIN deleted : \A k \in 1..Len(deleted[v]) :
                  deleted[v][k].id # x.SnapshotId
            /\ \E y \in cloud : y.SnapshotId = x.SnapshotId

\* the second run has listed a snapshot without BackupTag together with a
\* tagged one of the same volume, and has deleted the tagged one
C2_Witness ==
    /\ run = 2
    /\ RunEnded
    /\ \E x \in Listed :
          /\ NoBackupTag(x)
          /\ \E k \in 1..Len(calls) :
                /\ calls[k].op = "delete_snapshot"
                /\ calls[k].volume = x.VolumeId
                /\ calls[k].ok

-----------------------------------------------------------------------------
(* C5: for a volume whose listing holds a pending snapshot, the run sends   *)
(* no create request; its created entry is the "pending snapshot, operation *)
(* aborted" message; the skip is a success (the status is failed only if a  *)
(* request failed); and the skip is followed by the deletion phase of that  *)
(* volume, whose delete requests are the selection from the listing.        *)
C5_PendingSkipsCreation ==
    \A v \in DOMAIN snapshots :
        HasPending(v) =>
            /\ CallsOf("create_snapshot", v) = <<>>
            /\ v \in DOMAIN created =>
                  /\ created[v] = Entry("pending_aborted", 0)
                  /\ ~final_status => SomeRequestFailed
                  /\ \/ v \in DOMAIN deleted
                        /\ DeleteIds(v) = select_all(snapshots[v],
                                                     json_loads(retention_policy))
                     \/ v \notin DOMAIN deleted
                        /\ Items[vi] = v
                        /\ \/ pc \in {"delete_old_snapshots", "deleting"}
                           \/ pc = "idle" /\ outcome = "raised"

\* Scenario C: a run that found a pending snapshot has returned, with the
\* message as created entry, success as status and a delete request sent
C5_Witness ==
    /\ RunEnded
    /\ outcome = "returned"
    /\ \E v \in DOMAIN snapshots :
          /\ HasPending(v)
          /\ created[v] = Entry("pending_aborted", 0)
          /\ Len(DeleteIds(v)) >= 1

-----------------------------------------------------------------------------
(* C7: a delete request is sent for every selected id of a volume, whatever *)
(* earlier delete requests failed, and the deleted report of the volume has *)
(* one entry per request, in request order: the id when the delete          *)
(* succeeded, the failure message naming the id when it failed.             *)
C7_EveryDeleteReported ==
    \A v \in DOMAIN snapshots :
        LET dc     == CallsOf("delete_snapshot", v)
            report == IF v \in DOMAIN deleted THEN deleted[v]
                      ELSE IF pc = "deleting" /\ Items[vi] = v THEN del_ret
                      ELSE <<>>
        IN  /\ Len(report) = Len(dc)
            /\ \A k \in 1..Len(dc) :
                  report[k] = Entry(IF dc[k].ok THEN "snapshot_id" ELSE "failed_to_delete",
                                    dc[k].id)
            /\ v \in DOMAIN deleted =>
                  DeleteIds(v) = select_all(snapshots[v], json_loads(retention_policy))
            /\ (pc = "deleting" /\ Items[vi] = v) =>
                  DeleteIds(v) \o snapshot_ids = selected

\* two ids were selected for a volume; the first delete failed, the second
\* was still requested and succeeded
C7_Witness ==
    \E v \in DOMAIN deleted :
        /\ Len(deleted[v]) = 2
        /\ deleted[v][1].kind = "failed_to_delete"
        /\ deleted[v][2].kind = "snapshot_id"

-----------------------------------------------------------------------------
(* C8: when execute returns, the status is true iff no create and no delete *)
(* request of the run failed (a skipped creation is no failure), and the    *)
(* report has a created and a deleted entry for every volume.               *)
C8_OverallStatus ==
    (pc = "idle" /\ outcome \in {"returned", "exit_-1"}) =>
        /\ (outcome = "returned") <=> ~SomeRequestFailed
        /\ final_status <=> ~SomeRequestFailed
        /\ DOMAIN created = Range(volume_ids)
        /\ DOMAIN deleted = Range(volume_ids)

\* a delete failed for the first of two volumes; the second was still given a
\* new snapshot, and the run ended with exit(-1)
C8_Witness ==
    /\ pc = "idle"
    /\ outcome = "exit_-1"
    /\ Len(Items) = 2
    /\ \E k \in 1..Len(calls) :
          /\ calls[k].op = "delete_snapshot"
          /\ calls[k].volume = Items[1]
          /\ ~calls[k].ok
    /\ created[Items[2]].kind = "snapshot_id"
    /\ \A k \in 1..Len(calls) : calls[k].volume = Items[2] => calls[k].ok

-----------------------------------------------------------------------------
-----------------------------------------------------------------------------
(* C10: an invalid configuration (a retention policy that does not parse,   *)
(* or one with a negative keep-count) aborts the run before any request: no *)
(* list, create or delete request is sent in a run with such a policy.      *)
InvalidConfiguration ==
    \/ ~json_loads_ok(retention_policy)
    \/ \E t \in DOMAIN json_loads(retention_policy) :
          json_loads(retention_policy)[t] < 0

C10_InvalidConfigurationAborts ==
    InvalidConfiguration => calls = <<>>

-----------------------------------------------------------------------------
(* C6: if the create request fails for a volume V1, then in the same run    *)
(* the created entry of V1 is the failure text, the delete requests         *)
(* selected for V1 are sent, every later volume V2 is processed (create or  *)
(* skip, with the new id as created entry when its create succeeds, then    *)
(* its deletions), and the overall status is failed.                        *)
C6_CreateFailureIsolated ==
    RunEnded =>
        \A k1 \in 1..Len(Items) :
            LET V1 == Items[k1]
            IN  (\E c \in Range(CallsOf("create_snapshot", V1)) : ~c.ok) =>
                  /\ created[V1] = Entry("failed_to_create", 0)
                  /\ V1 \in DOMAIN deleted =>
                        DeleteIds(V1) = select_all(snapshots[V1],
                                                   json_loads(retention_policy))
                  /\ \A k2 \in (k1 + 1)..Len(Items) :
                        LET V2 == Items[k2]
                        IN  /\ V2 \in DOMAIN created
                            /\ V2 \in DOMAIN deleted
                            /\ ~HasPending(V2) =>
                                  /\ Len(CallsOf("create_snapshot", V2)) = 1
                                  /\ \A c \in Range(CallsOf("create_snapshot", V2)) :
                                        c.ok => created[V2] = Entry("snapshot_id", c.id)
                  /\ ~final_status
                  /\ outcome # "returned"

-----------------------------------------------------------------------------
(* C11: the snapshot a run creates is never evaluated for deletion in that  *)
(* run: it is not in the listing the deletion phase reads, it is never      *)
(* selected, and no delete request of the run targets the id returned by a  *)
(* create request of the run.                                               *)
C11_CreatedNotDeletedInSameRun ==
    \A k \in 1..Len(calls) :
        (calls[k].op = "create_snapshot" /\ calls[k].ok) =>
            /\ \A x \in Listed : x.SnapshotId # calls[k].id
            /\ calls[k].id \notin Range(selected) \cup Range(snapshot_ids)
            /\ \A j \in 1..Len(calls) :
                  calls[j].op = "delete_snapshot" => calls[j].id # calls[k].id

\* a run created a snapshot for a volume and then deleted an older snapshot of
\* that volume, under a policy that keeps nothing of the new snapshot's tier
C11_Witness ==
    /\ RunEnded
    /\ \E k, j \in 1..Len(calls) :
          /\ calls[k].op = "create_snapshot"
          /\ calls[k].ok
          /\ calls[j].op = "delete_snapshot"
          /\ calls[j].ok
          /\ calls[j].volume = calls[k].volume
          /\ k < j
          /\ \E x \in cloud :
                /\ x.SnapshotId = calls[k].id
                /\ \E t \in Tiers :
                      HasBackupTag(x, t) /\ Keep(json_loads(retention_policy), t) = 0

-----------------------------------------------------------------------------
(* C12, as stated: the boundary conditions of the classifier are nested in  *)
(* the order y, m, w, d: every time that satisfies the yearly condition     *)
(* satisfies the monthly one, every time that satisfies the monthly         *)
(* condition satisfies the weekly one, and every time that satisfies the    *)
(* weekly condition satisfies the daily one.                                *)
C12_ConditionsNested ==
    pc = "tagged" =>
        /\ condition_y(now) => condition_m(now)
        /\ condition_m(now) => condition_w(now)
        /\ condition_w(now) => condition_d(now)

(* C12, amended: the yearly condition implies the monthly one, and the      *)
(* monthly and the weekly condition each imply the daily one; a time on the *)
(* monthly boundary satisfies the weekly condition only when its weekday    *)
(* is the start of the week, and the label is the first condition           *)
(* satisfied in the order y, m, w, d (h when none is).                      *)
C12_ConditionsNestedExceptWeekly ==
    pc = "tagged" =>
        /\ condition_y(now) => condition_m(now)
        /\ condition_m(now) => condition_d(now)
        /\ condition_w(now) => condition_d(now)
        /\ condition_m(now) => (condition_w(now) <=> now.dayname = start_of_week)
        /\ backup_tag =
              IF condition_y(now) THEN "y"
              ELSE IF condition_m(now) THEN "m"
              ELSE IF condition_w(now) THEN "w"
              ELSE IF condition_d(now) THEN "d"
              ELSE "h"

\* the first of March at the start of day, a Thursday: on the monthly and the
\* daily boundary but not on the weekly one; the label is m
C12_Witness ==
    /\ pc = "tagged"
    /\ now = [h |-> start_of_day, d |-> start_of_month, m |-> 3, dayname |-> "Thursday"]
    /\ condition_m(now)
    /\ ~condition_w(now)
    /\ condition_d(now)
    /\ backup_tag = "m"

-----------------------------------------------------------------------------
(* C13: volumes are processed one after the other in configuration order:   *)
(* the list requests come first, in configuration order; of two create or   *)
(* delete requests, the earlier one is for the same volume or for a volume  *)
(* configured earlier; and within a volume the create-or-skip step comes    *)
(* before every delete request (no create request after another request of  *)
(* the volume, no delete request before the volume has its created entry).  *)
PositionInConfig(v) ==
    CHOOSE k \in 1..Len(volume_ids) :
        volume_ids[k] = v /\ \A j \in 1..(k - 1) : volume_ids[j] # v

IsMutation(c) == c.op \in {"create_snapshot", "delete_snapshot"}

C13_SequentialInConfigOrder ==
    /\ \A a, b \in 1..Len(calls) :
          a < b =>
             /\ calls[b].op = "describe_snapshots" =>
                   /\ calls[a].op = "describe_snapshots"
                   /\ a = b - 1 => volume_ids[a] = calls[a].volume
                                   /\ volume_ids[b] = calls[b].volume
             /\ (IsMutation(calls[a]) /\ IsMutation(calls[b])) =>
                   /\ PositionInConfig(calls[a].volume) <= PositionInConfig(calls[b].volume)
                   /\ calls[b].op = "create_snapshot" =>
                         calls[a].volume # calls[b].volume
    /\ \A k \in 1..Len(calls) :
          calls[k].op = "delete_snapshot" =>
             /\ calls[k].volume \in DOMAIN created
             /\ calls[k].volume \notin DOMAIN deleted =>
                   pc = "deleting" /\ Items[vi] = calls[k].volume

\* a run over two volumes sent create then delete for the first configured
\* volume, and after them create then delete for the second
C13_Witness ==
    /\ RunEnded
    /\ Len(volume_ids) = 2
    /\ volume_ids[1] # volume_ids[2]
    /\ \E a, b, c, d \in 1..Len(calls) :
          /\ a < b /\ b < c /\ c < d
          /\ calls[a].op = "create_snapshot" /\ calls[a].volume = volume_ids[1]
          /\ calls[b].op = "delete_snapshot" /\ calls[b].volume = volume_ids[1]
          /\ calls[c].op = "create_snapshot" /\ calls[c].volume = volume_ids[2]
          /\ calls[d].op = "delete_snapshot" /\ calls[d].volume = volume_ids[2]

-----------------------------------------------------------------------------
(* C14: no request is retried within a run: when the configured volume ids  *)
(* are distinct and no listed snapshot has two tags with the same key, the  *)
(* run sends at most one list request and at most one create request per    *)
(* volume and at most one delete request per snapshot id, whether or not    *)
(* the request fails.                                                       *)
DistinctVolumeIds ==
    \A a, b \in 1..Len(volume_ids) : volume_ids[a] = volume_ids[b] => a = b

UniqueTagKeys(x) ==
    \A a, b \in 1..Len(x.Tags) : x.Tags[a].Key = x.Tags[b].Key => a = b

C14_NoRetryWithinRun ==
    (DistinctVolumeIds /\ \A x \in Listed : UniqueTagKeys(x)) =>
        \A a, b \in 1..Len(calls) :
            (a # b /\ calls[a].op = calls[b].op) =>
                IF calls[a].op = "delete_snapshot"
                THEN calls[a].id # calls[b].id
                ELSE calls[a].volume # calls[b].volume

\* a run over distinct volumes has ended in which a create request failed
\* and a delete request failed; neither was sent again
C14_Witness ==
    /\ RunEnded
    /\ DistinctVolumeIds
    /\ \E a, b \in 1..Len(calls) :
          /\ calls[a].op = "create_snapshot" /\ ~calls[a].ok
          /\ calls[b].op = "delete_snapshot" /\ ~calls[b].ok
          /\ Len(CallsOf("create_snapshot", calls[a].volume)) = 1
          /\ Len(SelectSeq(calls, LAMBDA c : c.op = "delete_snapshot"
                                             /\ c.id = calls[b].id)) = 1

-----------------------------------------------------------------------------
(* C15: after a run in which every list, create and delete request          *)
(* succeeded, under a policy with keep-counts >= 0, every configured volume *)
(* has for every tier t at most keep(t) snapshots tagged t (keep(t) = 0     *)
(* when the policy does not name t), plus one when the snapshot the run     *)
(* created for the volume is tagged t; whatever snapshots existed before    *)
(* the first run and however the earlier runs ended.                        *)
NonNegativePolicy ==
    /\ json_loads_ok(retention_policy)
    /\ \A t \in DOMAIN json_loads(retention_policy) :
          json_loads(retention_policy)[t] >= 0

\* the snapshots the provider holds of volume v with BackupTag = t
Tagged(v, t) == {x \in cloud : x.VolumeId = v /\ HasBackupTag(x, t)}

\* 1 when the run created a snapshot of tier t for volume v, else 0
CreatedInTier(v, t) ==
    IF \E x \in cloud : /\ created[v] = Entry("snapshot_id", x.SnapshotId)
                        /\ HasBackupTag(x, t)
    THEN 1 ELSE 0

RunSucceeded ==
    /\ pc = "idle"
    /\ outcome = "returned"
    /\ \A k \in 1..Len(calls) : calls[k].ok

C15_RetentionBound ==
    (RunSucceeded /\ NonNegativePolicy) =>
        \A v \in Range(volume_ids), t \in Tiers :
            Cardinality(Tagged(v, t))
                <= Keep(json_loads(retention_policy), t) + CreatedInTier(v, t)

\* the second run, under keep-count 1 for h, found two hourly snapshots,
\* deleted one and created an hourly one: two are left, keep(h) + 1
C15_Witness ==
    /\ run = 2
    /\ RunSucceeded
    /\ json_loads(retention_policy) = ("h" :> 1)
    /\ \E v \in Range(volume_ids) :
          /\ Len(get_snapshots_by_backup_tag(snapshots[v], "h")) = 2
          /\ \E k \in 1..Len(calls) :
                calls[k].op = "delete_snapshot" /\ calls[k].volume = v
          /\ CreatedInTier(v, "h") = 1
          /\ Cardinality(Tagged(v, "h")) = 2

-----------------------------------------------------------------------------
(* C16: a run sends create and delete requests only after the list request  *)
(* has succeeded for every configured volume; when the list request fails   *)
(* for some volume, the run still sends the list request for every          *)
(* configured volume and then exits (429) without any create or delete      *)
(* request and without a report (no created or deleted entry, no return     *)
(* of execute).                                                             *)
SomeListingFailed == \E k \in 1..Len(DescribeCalls) : ~DescribeCalls[k].ok

AllVolumesListed ==
    [k \in 1..Len(DescribeCalls) |-> DescribeCalls[k].volume] = volume_ids

C16_AbortBeforeMutation ==
    /\ (\E k \in 1..Len(calls) : IsMutation(calls[k])) =>
          AllVolumesListed /\ ~SomeListingFailed
    /\ SomeListingFailed =>
          /\ \A k \in 1..Len(calls) : ~IsMutation(calls[k])
          /\ created = EmptyDict
          /\ deleted = EmptyDict
          /\ outcome \in {"running", "exit_429"}
          /\ \/ pc = "get_all_snapshots" /\ outcome = "running"
             \/ pc = "idle" /\ outcome = "exit_429" /\ AllVolumesListed

\* the list request succeeded for the first of two volumes, which holds a
\* snapshot, and failed for the second: the run has exited with 429 after
\* both list requests and has sent nothing else
C16_Witness ==
    /\ pc = "idle"
    /\ outcome = "exit_429"
    /\ Len(calls) = 2
    /\ calls[1].ok
    /\ ~calls[2].ok
    /\ calls[1].volume # calls[2].volume
    /\ snapshots[calls[1].volume] # <<>>

-----------------------------------------------------------------------------
(* C17: a snapshot that was selected in a run and whose delete request      *)
(* failed is selected again in the next run that gets its listing and finds *)
(* the snapshot in it (same policy, distinct creation times, new snapshots  *)
(* newer than old ones); and when the invocations recur and the list and    *)
(* delete requests do not fail forever, a snapshot whose delete request     *)
(* failed is eventually deleted.                                            *)
DeleteRequested(id) ==
    \E k \in 1..Len(calls) : calls[k].op = "delete_snapshot" /\ calls[k].id = id

SelectedAgain ==
    /\ \A v \in DOMAIN deleted : \A x \in Range(snapshots[v]) :
          x.SnapshotId \in failed_before =>
             \E k \in 1..Len(deleted[v]) : deleted[v][k].id = x.SnapshotId
    /\ (RunEnded /\ outcome # "exit_429") =>
          \A x \in Listed :
             x.SnapshotId \in failed_before =>
                outcome \in {"returned", "exit_-1"} /\ DeleteRequested(x.SnapshotId)

====
